---- MODULE Spec2Model ----
(***************************************************************************)
(* State-machine model of scanner.py: the pre-breakout / threshold scanner *)
(* with its hot list, its batch scheduler and its JSON state file.         *)
(*                                                                         *)
(* A ticker symbol is a sequence of one-character strings, so that the     *)
(* sanitation of get_tickers (strip, upper, separator filter) is computed. *)
(* Prices and volumes are integers; percent comparisons are cross          *)
(* multiplied, which is what the float code computes up to rounding.       *)
(***************************************************************************)
EXTENDS Integers, Sequences, FiniteSets, TLC

\* ------------------------------------------------------------------ CONFIG
\* MAX_TICKERS and BATCH_SIZE are 1000 and 50 in scanner.py; the model runs
\* them scaled down, as bounds, so that truncation and several batches happen
\* with a handful of symbols.
MAX_TICKERS == 2
BATCH_SIZE == 1
GAP_THRESHOLD == 3
VOLUME_MULTIPLIER == 2
BREAKOUT_LOOKBACK == 20
\* sentiment is kept in bullishPercent units (hundredths), so 0.2 is 20
SENTIMENT_POSITIVE == 20
THRESHOLDS == <<5, 10, 20>>
\* int(time.time() // 300)
SlotSeconds == 300
\* 24 * 3600
StaleSeconds == 24 * 3600

\* ------------------------------------------------------------------ bounds
MaxRuns == 2
MaxTicks == 1
\* the clock at the start: 200 seconds into a window
T0 == 19676 * StaleSeconds + 200
\* how far the clock moves between two runs: one window, or a day
ClockSteps == {SlotSeconds, StaleSeconds}

\* ------------------------------------------------------------------ helpers
Range(s) == {s[i] : i \in 1..Len(s)}

RECURSIVE Dedup(_)
\* list(dict.fromkeys(s)): first occurrences, in order
Dedup(s) ==
  IF s = <<>> THEN <<>>
  ELSE LET front == Dedup(SubSeq(s, 1, Len(s) - 1))
           x == s[Len(s)]
       IN IF x \in Range(front) THEN front ELSE Append(front, x)

\* the orders in which list(a_set) may enumerate a set
Orderings(S) ==
  {q \in [1..Cardinality(S) -> S] : \A i, j \in 1..Cardinality(S) : i /= j => q[i] /= q[j]}

Min(a, b) == IF a < b THEN a ELSE b

RECURSIVE SumSeq(_)
SumSeq(s) == IF s = <<>> THEN 0 ELSE s[1] + SumSeq(Tail(s))

RECURSIVE MaxSeq(_)
MaxSeq(s) == IF Len(s) = 1 THEN s[1]
             ELSE LET m == MaxSeq(Tail(s)) IN IF s[1] > m THEN s[1] ELSE m

\* the last n elements of s (pandas tail)
TailN(s, n) == IF Len(s) <= n THEN s ELSE SubSeq(s, Len(s) - n + 1, Len(s))

RECURSIVE SortedSeq(_)
\* sorted(list(a_set)) for a set of integers
SortedSeq(S) ==
  IF S = {} THEN <<>>
  ELSE LET m == CHOOSE x \in S : \A y \in S : x <= y
       IN <<m>> \o SortedSeq(S \ {m})

\* ------------------------------------------------------------------ symbols
Sym(c) == <<c>>
UpperChar(c) == CASE c = "a" -> "A" [] c = "b" -> "B" [] c = "c" -> "C" [] OTHER -> c
Upper(s) == [i \in 1..Len(s) |-> UpperChar(s[i])]

RECURSIVE LStrip(_)
LStrip(s) == IF s /= <<>> /\ s[1] = " " THEN LStrip(Tail(s)) ELSE s
RECURSIVE RStrip(_)
RStrip(s) == IF s /= <<>> /\ s[Len(s)] = " " THEN RStrip(SubSeq(s, 1, Len(s) - 1)) ELSE s
Strip(s) == RStrip(LStrip(s))

HasSeparator(su) == \E i \in 1..Len(su) : su[i] \in {" ", "/", "."}

\* one entry of the provider's JSON list: its "symbol" value, a string or not
Str(s) == [isStr |-> TRUE, s |-> s]
NotStr == [isStr |-> FALSE, s |-> <<>>]

RECURSIVE Extract(_)
\* the loop of get_tickers over data
Extract(data) ==
  IF data = <<>> THEN <<>>
  ELSE LET e == data[Len(data)]
           front == Extract(SubSeq(data, 1, Len(data) - 1))
           su == Upper(Strip(e.s))
       IN IF ~e.isStr \/ e.s = <<>> THEN front
          ELSE IF HasSeparator(su) THEN front
          ELSE Append(front, su)

\* what the symbol endpoint may answer: ok = FALSE is a transport or HTTP error
ProviderAnswers ==
  { [ok |-> FALSE, data |-> <<>>],
    [ok |-> TRUE, data |-> <<>>],
    [ok |-> TRUE, data |-> <<Str(<<"B", ".", "A">>), NotStr, Str(<<>>)>>],
    [ok |-> TRUE, data |-> <<Str(<<"A">>), Str(<<"B">>), Str(<<"C">>), Str(<<"D">>)>>],
    [ok |-> TRUE, data |-> <<Str(<<" ", "a">>), Str(<<"A">>), Str(<<"B", "/", "C">>)>>] }

\* ------------------------------------------------------------------ state file
\* The parsed JSON document. A key that is absent reads as its .get default,
\* so the document is kept total: [] / 0 / {} stand for an absent key.
\* "hot_list" is written as list(a_set) and only ever read back through
\* set(...), so the document keeps it as the set of its members.
EmptyDoc ==
  [tickers |-> <<>>, tickers_fetched_at |-> 0, alerts_sent |-> <<>>,
   hot_list |-> {}, last_run |-> 0]

\* state.json: absent, a text json.load rejects, or a document
NoFile == [kind |-> "missing", doc |-> EmptyDoc]
CorruptFile == [kind |-> "corrupt", doc |-> EmptyDoc]
DocFile(d) == [kind |-> "doc", doc |-> d]

\* readable = FALSE: open or read of an existing file raises
load_state(f, readable) ==
  IF f.kind = "doc" /\ readable THEN f.doc ELSE EmptyDoc

\* open(STATE_FILE, "w") truncates before json.dump writes: "open_failed"
\* leaves the file as it was, "dump_failed" leaves a truncated text
SaveOutcomes == {"ok", "open_failed", "dump_failed"}
save_state(f, st, outcome) ==
  CASE outcome = "ok" -> DocFile(st)
    [] outcome = "open_failed" -> f
    [] OTHER -> CorruptFile

\* alerts_sent: ticker -> {"thresholds": [...], "prebreak": bool}, a function
\* on the tickers that have an entry; <<>> is the empty mapping
HasRec(alerts, t) == t \in DOMAIN alerts
EmptyRec == [thresholds |-> <<>>, prebreak |-> FALSE]
\* alerts_sent.get(ticker, {}) with the .get defaults of its two keys
RecOf(alerts, t) == IF HasRec(alerts, t) THEN alerts[t] ELSE EmptyRec
SetRec(alerts, t, rec) ==
  [x \in (DOMAIN alerts) \cup {t} |-> IF x = t THEN rec ELSE alerts[x]]

\* ------------------------------------------------------------------ batches
\* tickers[i:i+BATCH_SIZE] for i in range(0, len(tickers), BATCH_SIZE)
Chunks(tickers) ==
  [k \in 1..((Len(tickers) + BATCH_SIZE - 1) \div BATCH_SIZE) |->
     SubSeq(tickers, (k - 1) * BATCH_SIZE + 1, Min(k * BATCH_SIZE, Len(tickers)))]

\* a scheduler whose window is a minute
SlotOf_Minute(t) == t \div 60

SlotOf(t) == t \div SlotSeconds

\* a scheduler that indexes by the clock instead of the window
batches_for_run_ClockIndex(tickers, t) ==
  IF tickers = <<>> THEN [batch |-> <<>>, idx |-> 0, total |-> 0]
  ELSE LET batches == Chunks(tickers)
           idx == t % Len(batches)
       IN [batch |-> batches[idx + 1], idx |-> idx, total |-> Len(batches)]

batches_for_run(tickers, t) ==
  IF tickers = <<>> THEN [batch |-> <<>>, idx |-> 0, total |-> 0]
  ELSE LET batches == Chunks(tickers)
           idx == SlotOf(t) % Len(batches)
       IN [batch |-> batches[idx + 1], idx |-> idx, total |-> Len(batches)]

\* ------------------------------------------------------------------ market data
Bar(o, h, c, v) == [Open |-> o, High |-> h, Close |-> c, Volume |-> v]
\* n identical earlier bars followed by today's bar
Hist(n, earlier, today) == [i \in 1..(n + 1) |-> IF i <= n THEN earlier ELSE today]

\* the daily histories the snapshot provider may return, by number
Snapshots ==
  << <<>>,
    Hist(1, Bar(100, 105, 100, 1000000), Bar(104, 106, 106, 5000000)),
    Hist(2, Bar(100, 105, 0, 1000000), Bar(104, 106, 106, 5000000)),
    Hist(25, Bar(100, 105, 100, 1000000), Bar(104, 106, 106, 5000000)),
    Hist(25, Bar(100, 105, 100, 1000000), Bar(100, 101, 100, 1000000)),
    Hist(25, Bar(100, 105, 100, 1000000), Bar(100, 105, 105, 1000000)),
    Hist(25, Bar(100, 105, 100, 1000000), Bar(103, 111, 110, 1000000)),
    Hist(3, Bar(100, 105, 100, 1000000), Bar(100, 126, 125, 1000000)),
    Hist(25, Bar(100, 105, 100, 1000000), Bar(100, 104, 104, 3000000)) >>

\* fetch_news_sentiment: None, or bullishPercent / 100
NoSentiment == [avail |-> FALSE, bp |-> 0]
Sentiments == {NoSentiment, [avail |-> TRUE, bp |-> 19], [avail |-> TRUE, bp |-> 20]}

Highs(hist) == [i \in 1..Len(hist) |-> hist[i].High]
Volumes(hist) == [i \in 1..Len(hist) |-> hist[i].Volume]

price(hist) == hist[Len(hist)].Close
prev_close(hist) == hist[Len(hist) - 1].Close
\* float(today.get("Open", price) or price)
open_price(hist) ==
  IF hist[Len(hist)].Open = 0 THEN price(hist) ELSE hist[Len(hist)].Open
vol_today(hist) == hist[Len(hist)].Volume

avg_vol(hist) ==
  LET vol_series == Volumes(hist)
  IN IF Len(vol_series) >= 5
     THEN SumSeq(TailN(vol_series, 30)) \div Len(TailN(vol_series, 30))
     ELSE IF Len(vol_series) > 0 THEN SumSeq(vol_series) \div Len(vol_series) ELSE 0

unusual_vol(hist) ==
  avg_vol(hist) > 0 /\ vol_today(hist) > VOLUME_MULTIPLIER * avg_vol(hist)

\* a breakout test that a close equal to the recent high passes
breakout_OrEqual(hist) ==
  Len(hist) >= BREAKOUT_LOOKBACK + 1
  /\ price(hist) >= MaxSeq(TailN(SubSeq(Highs(hist), 1, Len(hist) - 1), BREAKOUT_LOOKBACK))

\* hist["High"].shift(1).tail(BREAKOUT_LOOKBACK).max(): today is left out
HasHigh20(hist) == Len(hist) >= BREAKOUT_LOOKBACK + 1
high20(hist) ==
  MaxSeq(TailN(SubSeq(Highs(hist), 1, Len(hist) - 1), BREAKOUT_LOOKBACK))
breakout(hist) == HasHigh20(hist) /\ price(hist) > high20(hist)

pos_news(sentiment) == sentiment.avail /\ sentiment.bp >= SENTIMENT_POSITIVE

\* (open_price - prev_close) / prev_close * 100.0 >= GAP_THRESHOLD
gap(hist) ==
  (open_price(hist) - prev_close(hist)) * 100 >= GAP_THRESHOLD * prev_close(hist)

\* the triggers list, by name
triggers(hist, sentiment) ==
  (IF gap(hist) THEN <<"Gap">> ELSE <<>>)
  \o (IF unusual_vol(hist) THEN <<"UnusualVol">> ELSE <<>>)
  \o (IF breakout(hist) THEN <<"Breakout">> ELSE <<>>)
  \o (IF pos_news(sentiment) THEN <<"PositiveSentiment">> ELSE <<>>)

\* a comparison that needs the change to be above the level
ChangeAbove(hist, th) ==
  (price(hist) - prev_close(hist)) * 100 > th * prev_close(hist)

\* change_pct >= th
ChangeAtLeast(hist, th) ==
  (price(hist) - prev_close(hist)) * 100 >= th * prev_close(hist)

\* a scanner that forgets to look at the levels already recorded
NewThresholds_IgnoreRecorded(crossed, prev_thresholds, ths) ==
  SelectSeq(ths, LAMBDA th : th \in crossed)

RECURSIVE NewThresholds(_, _, _)
\* for th in THRESHOLDS: if change_pct >= th and th not in prev_thresholds
\* (crossed: the levels th with change_pct >= th)
NewThresholds(crossed, prev_thresholds, ths) ==
  IF ths = <<>> THEN <<>>
  ELSE LET rest == NewThresholds(crossed, prev_thresholds, Tail(ths))
       IN IF ths[1] \in crossed /\ ths[1] \notin prev_thresholds
          THEN <<ths[1]>> \o rest ELSE rest

NoResult == [some |-> FALSE, new_thresholds |-> <<>>, prebreak_hit |-> FALSE,
             triggers |-> <<>>]

\* lines 149-191 on one history and sentiment: whether the early returns at
\* 152 and 162 are passed, the triggers, and for each level whether
\* change_pct >= th
Analysis(hist, sentiment) ==
  LET usable == Len(hist) >= 3 /\ prev_close(hist) > 0
  IN [usable |-> usable,
      triggers |-> IF usable THEN triggers(hist, sentiment) ELSE <<>>,
      crossed |-> IF usable
                  THEN {th \in Range(THRESHOLDS) : ChangeAtLeast(hist, th)}
                  ELSE {}]

\* the analysis of every history and sentiment the run may see, computed once
Computed ==
  [i \in DOMAIN Snapshots, sentiment \in Sentiments |->
     Analysis(Snapshots[i], sentiment)]

\* an evaluator for which one trigger is enough
Decide_AnyTrigger(ticker, alerts, an, raises) ==
  IF raises \/ ~an.usable THEN NoResult
  ELSE LET new_thresholds ==
             NewThresholds(an.crossed, Range(RecOf(alerts, ticker).thresholds), THRESHOLDS)
           prebreak_hit == Len(an.triggers) >= 1 /\ ~RecOf(alerts, ticker).prebreak
       IN IF new_thresholds /= <<>> \/ prebreak_hit
          THEN [some |-> TRUE, new_thresholds |-> new_thresholds,
                prebreak_hit |-> prebreak_hit, triggers |-> an.triggers]
          ELSE NoResult

\* lines 193-221 on an analysis [an]
\* raises = TRUE: the history fetch or the computation raises, caught at 223
Decide(ticker, alerts, an, raises) ==
  IF raises \/ ~an.usable THEN NoResult
  ELSE LET trig == an.triggers
           prev_thresholds == Range(RecOf(alerts, ticker).thresholds)
           new_thresholds == NewThresholds(an.crossed, prev_thresholds, THRESHOLDS)
           prebreak_already == RecOf(alerts, ticker).prebreak
           prebreak_hit == Len(trig) >= 2 /\ ~prebreak_already
       IN IF new_thresholds /= <<>> \/ prebreak_hit
          THEN [some |-> TRUE, new_thresholds |-> new_thresholds,
                prebreak_hit |-> prebreak_hit, triggers |-> trig]
          ELSE NoResult

analyze_ticker(ticker, alerts, i, sentiment, raises) ==
  Decide(ticker, alerts, Computed[i, sentiment], raises)

\* ------------------------------------------------------------------ get_tickers
\* a test that takes any non-empty universe for fresh
UniverseFresh_AnyAge(st, t) == st.tickers /= <<>>

\* tickers and (now_ts() - fetched_at) < 24 * 3600
UniverseFresh(st, t) ==
  st.tickers /= <<>> /\ (t - st.tickers_fetched_at) < StaleSeconds

\* a get_tickers that leaves the write to the end of the run
get_tickers_NoSave(st, t, answer) ==
  IF UniverseFresh(st, t)
  THEN [raised |-> FALSE, saved |-> FALSE, tickers |-> st.tickers, state |-> st]
  ELSE IF ~answer.ok \/ Extract(answer.data) = <<>>
  THEN [raised |-> TRUE, saved |-> FALSE, tickers |-> <<>>, state |-> st]
  ELSE LET tk == SubSeq(Extract(answer.data), 1,
                        Min(MAX_TICKERS, Len(Extract(answer.data))))
       IN [raised |-> FALSE, saved |-> FALSE, tickers |-> tk,
           state |-> [st EXCEPT !.tickers = tk, !.tickers_fetched_at = t]]

\* [raised]: requests.get / raise_for_status raised, or SystemExit at 73;
\* [saved]: the state was written at 77
get_tickers(st, t, answer) ==
  IF UniverseFresh(st, t)
  THEN [raised |-> FALSE, saved |-> FALSE, tickers |-> st.tickers, state |-> st]
  ELSE IF ~answer.ok \/ Extract(answer.data) = <<>>
  THEN [raised |-> TRUE, saved |-> FALSE, tickers |-> <<>>, state |-> st]
  ELSE LET tk == SubSeq(Extract(answer.data), 1,
                        Min(MAX_TICKERS, Len(Extract(answer.data))))
       IN [raised |-> FALSE, saved |-> TRUE, tickers |-> tk,
           state |-> [st EXCEPT !.tickers = tk, !.tickers_fetched_at = t]]

\* ------------------------------------------------------------------ main, per ticker
Threshold(t, th) == [ticker |-> t, type |-> "threshold", level |-> th]
Prebreak(t) == [ticker |-> t, type |-> "prebreak", level |-> 0]

\* where building a message may raise (the headline formatting at 263 / 285):
\* at the k-th newly crossed level, or in the pre-breakout message
NoFault == [at |-> "none", k |-> 0]
AnalyzeFault == [at |-> "analyze", k |-> 0]
ThresholdFault(k) == [at |-> "threshold", k |-> k]
PrebreakFault == [at |-> "prebreak", k |-> 0]

\* a main that starts the ticker's record afresh (rec = {}) at 257
HandleThresholds_FreshRecord(t, alerts, hot, res, fault) ==
  IF res.new_thresholds = <<>>
  THEN [alerts |-> alerts, hot_list |-> hot, sent |-> <<>>, raised |-> FALSE]
  ELSE LET n == Len(res.new_thresholds)
           stop == IF fault.at = "threshold" /\ fault.k <= n THEN fault.k - 1 ELSE n
           sent == [i \in 1..stop |-> Threshold(t, res.new_thresholds[i])]
       IN IF stop < n
          THEN [alerts |-> SetRec(alerts, t, EmptyRec), hot_list |-> hot,
                sent |-> sent, raised |-> TRUE]
          ELSE [alerts |->
                  SetRec(alerts, t, [EmptyRec EXCEPT !.thresholds =
                     SortedSeq(Range(res.new_thresholds))]),
                hot_list |-> hot \cup {t}, sent |-> sent, raised |-> FALSE]

\* lines 255-276
HandleThresholds(t, alerts, hot, res, fault) ==
  IF res.new_thresholds = <<>>
  THEN [alerts |-> alerts, hot_list |-> hot, sent |-> <<>>, raised |-> FALSE]
  ELSE LET a1 == IF HasRec(alerts, t) THEN alerts ELSE SetRec(alerts, t, EmptyRec)
           rec == a1[t]
           n == Len(res.new_thresholds)
           stop == IF fault.at = "threshold" /\ fault.k <= n THEN fault.k - 1 ELSE n
           sent == [i \in 1..stop |-> Threshold(t, res.new_thresholds[i])]
       IN IF stop < n
          THEN [alerts |-> a1, hot_list |-> hot, sent |-> sent, raised |-> TRUE]
          ELSE [alerts |->
                  SetRec(a1, t, [rec EXCEPT !.thresholds =
                     SortedSeq(Range(rec.thresholds) \cup Range(res.new_thresholds))]),
                hot_list |-> hot \cup {t}, sent |-> sent, raised |-> FALSE]

\* a main that writes alerts_sent[ticker] = {"prebreak": True} at 280-282
HandlePrebreak_ReplaceRecord(t, alerts, hot, res, fault) ==
  IF ~res.prebreak_hit
  THEN [alerts |-> alerts, hot_list |-> hot, sent |-> <<>>, raised |-> FALSE]
  ELSE IF fault.at = "prebreak"
  THEN [alerts |-> SetRec(alerts, t, [EmptyRec EXCEPT !.prebreak = TRUE]),
        hot_list |-> hot, sent |-> <<>>, raised |-> TRUE]
  ELSE [alerts |-> SetRec(alerts, t, [EmptyRec EXCEPT !.prebreak = TRUE]),
        hot_list |-> hot \cup {t}, sent |-> <<Prebreak(t)>>, raised |-> FALSE]

\* lines 279-296
HandlePrebreak(t, alerts, hot, res, fault) ==
  IF ~res.prebreak_hit
  THEN [alerts |-> alerts, hot_list |-> hot, sent |-> <<>>, raised |-> FALSE]
  ELSE LET a1 == IF HasRec(alerts, t) THEN alerts ELSE SetRec(alerts, t, EmptyRec)
           rec == a1[t]
       IN IF rec.prebreak
          THEN [alerts |-> a1, hot_list |-> hot \cup {t}, sent |-> <<>>, raised |-> FALSE]
          ELSE IF fault.at = "prebreak"
          THEN [alerts |-> SetRec(a1, t, [rec EXCEPT !.prebreak = TRUE]),
                hot_list |-> hot, sent |-> <<>>, raised |-> TRUE]
          ELSE [alerts |-> SetRec(a1, t, [rec EXCEPT !.prebreak = TRUE]),
                hot_list |-> hot \cup {t}, sent |-> <<Prebreak(t)>>, raised |-> FALSE]

\* the body of the for loop, lines 247-300
HandleTicker(t, alerts, hot, res, fault) ==
  IF ~res.some
  THEN [alerts |-> alerts, hot_list |-> hot, sent |-> <<>>, raised |-> FALSE]
  ELSE LET th == HandleThresholds(t, alerts, hot, res, fault)
       IN IF th.raised THEN th
          ELSE LET pb == HandlePrebreak(t, th.alerts, th.hot_list, res, fault)
               IN [alerts |-> pb.alerts, hot_list |-> pb.hot_list,
                   sent |-> th.sent \o pb.sent, raised |-> pb.raised]

\* the faults that can happen for this result
FaultsOf(res) ==
  {NoFault, AnalyzeFault}
  \cup {ThresholdFault(k) : k \in 1..Len(res.new_thresholds)}
  \cup (IF res.prebreak_hit THEN {PrebreakFault} ELSE {})

\* a main that undoes the update of the record and of the hot list when
\* send_discord returns False
AfterSend_RollBack(alerts, hot, h, discord_ok) ==
  IF discord_ok \/ h.sent = <<>> THEN h
  ELSE [h EXCEPT !.alerts = alerts, !.hot_list = hot]

\* what the iteration leaves once send_discord has answered: the value
\* returned at 132 / 136 is dropped by the calls at 271 and 294
AfterSend(alerts, hot, h, discord_ok) == h

\* a scan set that is the plain concatenation
ScanSet_NoDedup(b, hotOrder) == b \o hotOrder

\* list(dict.fromkeys(batch + list(hot_list))), line 241
ScanSet(b, hotOrder) == Dedup(b \o hotOrder)

\* a loop without the try/except of 247 and 298
AfterIteration_Unprotected(raised) == IF raised THEN "aborted" ELSE "scan"

\* where the loop stands after an iteration, whether or not it raised:
\* the except at 298 logs and the for loop goes on
AfterIteration(raised) == "scan"

\* ------------------------------------------------------------------ state
VARIABLES
  now,          \* time.time()
  ticks,        \* clock steps taken
  file,         \* state.json
  pc,           \* "idle", "scan", "done" (run ended), "aborted" (run raised)
  runs,         \* runs started
  state,        \* main's state dict
  alerts_sent,  \* main's alerts_sent
  hot_list,     \* main's hot_list (a set)
  tickers,      \* main's tickers
  batch, idx, total,
  scan_set,
  pos,          \* index in scan_set of the next ticker of the for loop
  refreshed,    \* this run found no fresh universe in its state
  evaluated,    \* the tickers this run has passed to analyze_ticker, in order
  failed,       \* the tickers whose iteration raised in this run
  saves,        \* the save_state calls of this run, in order: where and outcome
  last,         \* what the last iteration of the loop evaluated and sent
  ever,         \* every level and latch some run has recorded, as notification keys
  notified,     \* every notification some run has handed to send_discord
  undelivered,  \* the notifications for which send_discord returned False
  loaded,       \* this run's load_state returned the document of state.json
  picks,        \* scheduler study: the calls of batches_for_run made so far
  call          \* function studies: the call under study, its arguments and results

vars == <<now, ticks, file, pc, runs, state, alerts_sent, hot_list, tickers,
          batch, idx, total, scan_set, pos, refreshed, evaluated, failed,
          saves, last, ever, notified, undelivered, loaded, picks, call>>

NoCall == [op |-> "none"]

NoEval == [evaluated |-> FALSE, ticker |-> <<>>, prev |-> EmptyRec,
           crossed |-> {}, ntriggers |-> 0, new_thresholds |-> <<>>,
           prebreak_hit |-> FALSE, raised |-> FALSE, sent |-> <<>>,
           delivered |-> FALSE]

\* the levels and latches an alerts_sent mapping holds, as notification keys
Held(alerts) ==
  UNION {{Threshold(t, th) : th \in Range(alerts[t].thresholds)} : t \in DOMAIN alerts}
  \cup {Prebreak(t) : t \in {x \in DOMAIN alerts : alerts[x].prebreak}}

Init ==
  /\ now = T0
  /\ ticks = 0
  /\ file = NoFile
  /\ pc = "idle"
  /\ runs = 0
  /\ state = EmptyDoc
  /\ alerts_sent = <<>>
  /\ hot_list = {}
  /\ tickers = <<>>
  /\ batch = <<>>
  /\ idx = 0
  /\ total = 0
  /\ scan_set = <<>>
  /\ pos = 1
  /\ refreshed = FALSE
  /\ evaluated = <<>>
  /\ failed = {}
  /\ saves = <<>>
  /\ last = NoEval
  /\ ever = {}
  /\ notified = {}
  /\ undelivered = {}
  /\ loaded = FALSE
  /\ picks = {}
  /\ call = NoCall

\* time passes between one run and the next
Tick(dt) ==
  /\ ticks < MaxTicks
  /\ pc \in {"done", "aborted"}
  /\ runs < MaxRuns
  /\ now' = now + dt
  /\ ticks' = ticks + 1
  /\ UNCHANGED <<file, pc, runs, state, alerts_sent, hot_list, tickers, batch,
                 idx, total, scan_set, pos, refreshed, evaluated, failed, saves,
                 last, ever, notified, undelivered, loaded, picks, call>>

\* main, lines 230-244: load, resolve the universe, pick the batch, form the
\* scan set. hotOrder is the order list(hot_list) happens to have.
StartRun(readable, answer, outcome) ==
  /\ pc \in {"idle", "done", "aborted"}
  /\ runs < MaxRuns
  /\ runs' = runs + 1
  /\ LET st0 == load_state(file, readable)
         a0 == st0.alerts_sent
         h0 == st0.hot_list
         g == get_tickers(st0, now, answer)
         b == batches_for_run(g.tickers, now)
     IN /\ file' = IF g.saved THEN save_state(file, g.state, outcome) ELSE file
        /\ saves' = IF g.saved THEN <<[at |-> "get_tickers", outcome |-> outcome]>> ELSE <<>>
        /\ state' = g.state
        /\ alerts_sent' = a0
        /\ hot_list' = h0
        /\ tickers' = g.tickers
        /\ last' = NoEval
        /\ ever' = ever \cup Held(a0)
        /\ pos' = 1
        /\ refreshed' = ~UniverseFresh(st0, now)
        /\ loaded' = (file.kind = "doc" /\ readable)
        /\ evaluated' = <<>>
        /\ failed' = {}
        /\ IF g.raised
           THEN /\ pc' = "aborted"
                /\ batch' = <<>> /\ idx' = 0 /\ total' = 0 /\ scan_set' = <<>>
           ELSE /\ batch' = b.batch /\ idx' = b.idx /\ total' = b.total
                /\ IF b.batch = <<>>
                   THEN pc' = "done" /\ scan_set' = <<>>
                   ELSE /\ pc' = "scan"
                        /\ \E hotOrder \in Orderings(h0) :
                             scan_set' = ScanSet(b.batch, hotOrder)
  /\ UNCHANGED <<now, ticks, notified, undelivered, picks, call>>

\* one iteration of the for loop, lines 246-300, on the history and sentiment
\* the providers return; discord_ok: the webhook answers 200 or 204
ScanTicker(i, sentiment, discord_ok) ==
  /\ pc = "scan"
  /\ pos <= Len(scan_set)
  /\ LET t == scan_set[pos]
         res0 == analyze_ticker(t, alerts_sent, i, sentiment, FALSE)
     IN \E fault \in FaultsOf(res0) :
          LET res == IF fault.at = "analyze" THEN NoResult ELSE res0
              h == AfterSend(alerts_sent, hot_list,
                             HandleTicker(t, alerts_sent, hot_list, res, fault),
                             discord_ok)
          IN /\ alerts_sent' = h.alerts
             /\ hot_list' = h.hot_list
             /\ ever' = ever \cup Held(h.alerts)
             /\ notified' = notified \cup Range(h.sent)
             /\ undelivered' = IF discord_ok THEN undelivered
                               ELSE undelivered \cup Range(h.sent)
             /\ failed' = IF h.raised \/ fault.at = "analyze"
                          THEN failed \cup {t} ELSE failed
             /\ pc' = AfterIteration(h.raised)
             /\ (h.sent = <<>> => discord_ok)
             /\ last' = [evaluated |-> TRUE, ticker |-> t,
                         prev |-> RecOf(alerts_sent, t),
                         crossed |-> Computed[i, sentiment].crossed,
                         ntriggers |-> Len(Computed[i, sentiment].triggers),
                         new_thresholds |-> res.new_thresholds,
                         prebreak_hit |-> res.prebreak_hit,
                         raised |-> h.raised \/ fault.at = "analyze",
                         sent |-> h.sent, delivered |-> discord_ok]
  /\ pos' = pos + 1
  /\ evaluated' = Append(evaluated, scan_set[pos])
  /\ UNCHANGED <<now, ticks, file, runs, state, tickers, batch, idx, total,
                 scan_set, refreshed, saves, loaded, picks, call>>

\* main, lines 302-308
FinishRun(outcome) ==
  /\ pc = "scan"
  /\ pos > Len(scan_set)
  /\ LET st == [tickers |-> tickers,
                tickers_fetched_at |-> state.tickers_fetched_at,
                alerts_sent |-> alerts_sent,
                hot_list |-> hot_list,
                last_run |-> now]
     IN /\ state' = st
        /\ file' = save_state(file, st, outcome)
  /\ saves' = Append(saves, [at |-> "main", outcome |-> outcome])
  /\ pc' = "done"
  /\ last' = NoEval
  /\ UNCHANGED <<now, ticks, runs, alerts_sent, hot_list, tickers, batch, idx,
                 total, scan_set, pos, refreshed, evaluated, failed, ever, notified,
                 undelivered, loaded, picks, call>>

Next ==
  \/ \E dt \in ClockSteps : Tick(dt)
  \/ \E readable \in BOOLEAN, answer \in ProviderAnswers, outcome \in SaveOutcomes :
       StartRun(readable, answer, outcome)
  \/ \E i \in DOMAIN Snapshots, sentiment \in Sentiments, discord_ok \in BOOLEAN :
       ScanTicker(i, sentiment, discord_ok)
  \/ \E outcome \in SaveOutcomes : FinishRun(outcome)

Spec == Init /\ [][Next]_vars

\* runs that each read state.json and write it successfully
NextPersisting ==
  \/ \E dt \in ClockSteps : Tick(dt)
  \/ \E answer \in ProviderAnswers : StartRun(TRUE, answer, "ok")
  \/ \E i \in DOMAIN Snapshots, sentiment \in Sentiments, discord_ok \in BOOLEAN :
       ScanTicker(i, sentiment, discord_ok)
  \/ FinishRun("ok")

SpecPersisting == Init /\ [][NextPersisting]_vars

\* ------------------------------------------------------------------ scheduler study
\* batches_for_run on its own: a fixed universe, the clock moving by a third
\* of a window or by a window, and a call at any moment.
MaxUniverse == 4
MaxBatchTicks == 5
Alphabet == <<"A", "B", "C", "D", "E", "F">>
BatchUniverses ==
  {[i \in 1..n |-> Sym(Alphabet[i])] : n \in 0..Min(MaxUniverse, Len(Alphabet))}
  \cup {<<Sym("A"), Sym("A"), Sym("B")>>}
BatchClockSteps == {100, SlotSeconds}

InitBatch ==
  /\ now = T0
  /\ ticks = 0
  /\ file = NoFile
  /\ pc = "idle"
  /\ runs = 0
  /\ state = EmptyDoc
  /\ alerts_sent = <<>>
  /\ hot_list = {}
  /\ tickers \in BatchUniverses
  /\ batch = <<>>
  /\ idx = 0
  /\ total = 0
  /\ scan_set = <<>>
  /\ pos = 1
  /\ refreshed = FALSE
  /\ evaluated = <<>>
  /\ failed = {}
  /\ saves = <<>>
  /\ last = NoEval
  /\ ever = {}
  /\ notified = {}
  /\ undelivered = {}
  /\ loaded = FALSE
  /\ picks = {}
  /\ call = NoCall

BatchCall ==
  /\ LET b == batches_for_run(tickers, now)
     IN /\ batch' = b.batch /\ idx' = b.idx /\ total' = b.total
        /\ picks' = picks \cup {[at |-> now, batch |-> b.batch, idx |-> b.idx,
                                  total |-> b.total]}
  /\ UNCHANGED <<now, ticks, file, pc, runs, state, alerts_sent, hot_list, tickers,
                 scan_set, pos, refreshed, evaluated, failed, saves, last, ever,
                 notified, undelivered, loaded, call>>

BatchClock(dt) ==
  /\ ticks < MaxBatchTicks
  /\ now' = now + dt
  /\ ticks' = ticks + 1
  /\ UNCHANGED <<file, pc, runs, state, alerts_sent, hot_list, tickers, batch, idx,
                 total, scan_set, pos, refreshed, evaluated, failed, saves, last,
                 ever, notified, undelivered, loaded, picks, call>>

NextBatch ==
  \/ BatchCall
  \/ \E dt \in BatchClockSteps : BatchClock(dt)

SpecBatch == InitBatch /\ [][NextBatch]_vars

\* ------------------------------------------------------------------ evaluation study
\* analyze_ticker and the loop body of main on their own: one ticker, every
\* history of a family built around the bar counts 2, 3, 20, 21 and 22, every
\* sentiment and every alert record, then every place where the handling
\* may raise.
mainVars == <<now, ticks, file, pc, runs, state, alerts_sent, hot_list, tickers,
              batch, idx, total, scan_set, pos, refreshed, evaluated, failed,
              saves, last, ever, notified, undelivered, loaded, picks>>

EvalTicker == Sym("A")
OtherTicker == Sym("B")
\* the bars before today: how many, and what they are made of
EvalBarCounts == {1, 2, 19, 20, 21}
EvalShapes == {"flat", "old_high", "no_prev_close"}
EvalEarlier == Bar(100, 105, 100, 1000000)
\* today's bar; its high is above its close
EvalTodays ==
  {Bar(o, c + 1, c, v) : o \in {0, 100, 103},
                         c \in {104, 105, 106, 110, 120, 131},
                         v \in {1000000, 3000000}}
\* "old_high": the first bar has a high of 130; "no_prev_close": yesterday's
\* close is 0
EvalHist(n, shape, today) ==
  [i \in 1..(n + 1) |->
     IF i = n + 1 THEN today
     ELSE IF i = 1 /\ shape = "old_high" THEN Bar(100, 130, 100, 1000000)
     ELSE IF i = n /\ shape = "no_prev_close" THEN Bar(100, 105, 0, 1000000)
     ELSE EvalEarlier]
\* the record of the ticker in alerts_sent: none, or any levels and latch
EvalRecs ==
  {[has |-> FALSE, rec |-> EmptyRec]}
  \cup {[has |-> TRUE, rec |-> [thresholds |-> SortedSeq(L), prebreak |-> b]] :
          L \in SUBSET Range(THRESHOLDS), b \in BOOLEAN}
\* alerts_sent and hot_list around the evaluation: another ticker has alerted
EvalAlerts(r) ==
  IF r.has
  THEN SetRec(SetRec(<<>>, OtherTicker, [thresholds |-> <<5>>, prebreak |-> TRUE]),
              EvalTicker, r.rec)
  ELSE SetRec(<<>>, OtherTicker, [thresholds |-> <<5>>, prebreak |-> TRUE])
EvalHot == {OtherTicker}
NoHandled == [alerts |-> <<>>, hot_list |-> {}, sent |-> <<>>, raised |-> FALSE]
NoAnalysis == [usable |-> FALSE, triggers |-> <<>>, crossed |-> {}]

InitEval ==
  /\ now = T0
  /\ ticks = 0
  /\ file = NoFile
  /\ pc = "idle"
  /\ runs = 0
  /\ state = EmptyDoc
  /\ alerts_sent = <<>>
  /\ hot_list = {}
  /\ tickers = <<>>
  /\ batch = <<>>
  /\ idx = 0
  /\ total = 0
  /\ scan_set = <<>>
  /\ pos = 1
  /\ refreshed = FALSE
  /\ evaluated = <<>>
  /\ failed = {}
  /\ saves = <<>>
  /\ last = NoEval
  /\ ever = {}
  /\ notified = {}
  /\ undelivered = {}
  /\ loaded = FALSE
  /\ picks = {}
  /\ \E n \in EvalBarCounts, shape \in EvalShapes, today \in EvalTodays,
        sentiment \in Sentiments, r \in EvalRecs :
       call = [op |-> "eval", stage |-> "input", n |-> n, shape |-> shape,
               today |-> today, sentiment |-> sentiment, r |-> r,
               raises |-> FALSE, an |-> NoAnalysis, res |-> NoResult,
               fault |-> NoFault, h |-> NoHandled]

\* res = analyze_ticker(ticker, alerts_sent), line 248
EvalAnalyze(raises) ==
  /\ call.op = "eval" /\ call.stage = "input"
  /\ LET an == Analysis(EvalHist(call.n, call.shape, call.today), call.sentiment)
     IN call' = [call EXCEPT !.stage = "analyzed", !.raises = raises, !.an = an,
                             !.res = Decide(EvalTicker, EvalAlerts(call.r), an, raises)]
  /\ UNCHANGED mainVars

\* the rest of the loop body, lines 251-300
EvalHandle(fault) ==
  /\ call.op = "eval" /\ call.stage = "analyzed"
  /\ fault \in FaultsOf(call.res) \ {AnalyzeFault}
  /\ call' = [call EXCEPT !.stage = "handled", !.fault = fault,
                          !.h = HandleTicker(EvalTicker, EvalAlerts(call.r), EvalHot,
                                             call.res, fault)]
  /\ UNCHANGED mainVars

NextEval ==
  \/ \E raises \in BOOLEAN : EvalAnalyze(raises)
  \/ \E fault \in {NoFault, PrebreakFault} \cup {ThresholdFault(k) : k \in 1..Len(THRESHOLDS)} :
       EvalHandle(fault)

SpecEval == InitEval /\ [][NextEval]_vars

\* ------------------------------------------------------------------ round-trip study
\* save_state and load_state on their own, on the dict main builds at 303-307
\* and on the JSON text json.dump writes for it.
\* Python values
PyDict(items) == [t |-> "dict", items |-> items]
PyList(items) == [t |-> "list", items |-> items]
PySet(members) == [t |-> "set", members |-> members]
PyInt(n) == [t |-> "int", n |-> n]
PyBool(b) == [t |-> "bool", b |-> b]
PyStr(s) == [t |-> "str", s |-> s]
Item(k, v) == [k |-> k, v |-> v]
HasKey(d, k) == \E i \in 1..Len(d.items) : d.items[i].k = k
\* d.get(k, default)
Get(d, k, default) ==
  IF HasKey(d, k)
  THEN d.items[CHOOSE i \in 1..Len(d.items) : d.items[i].k = k].v
  ELSE default
\* d[k] = v: replaces the value in place, or appends the key
SetItem(d, k, v) ==
  IF HasKey(d, k)
  THEN PyDict([i \in 1..Len(d.items) |->
                 IF d.items[i].k = k THEN Item(k, v) ELSE d.items[i]])
  ELSE PyDict(Append(d.items, Item(k, v)))
\* a list of strings, a list of ints
StrList(q) == PyList([i \in 1..Len(q) |-> PyStr(q[i])])
IntList(q) == PyList([i \in 1..Len(q) |-> PyInt(q[i])])

RECURSIVE Serializable(_)
\* json.dump raises TypeError on a value the encoder does not know (a set)
Serializable(v) ==
  CASE v.t = "dict" -> \A i \in 1..Len(v.items) : Serializable(v.items[i].v)
    [] v.t = "list" -> \A i \in 1..Len(v.items) : Serializable(v.items[i])
    [] v.t = "set" -> FALSE
    [] OTHER -> TRUE

RECURSIVE json_dump(_)
\* the JSON text of a value, as its tree: object, array, number, boolean, string
json_dump(v) ==
  CASE v.t = "dict" ->
         [j |-> "object",
          members |-> [i \in 1..Len(v.items) |->
                         [name |-> v.items[i].k, value |-> json_dump(v.items[i].v)]]]
    [] v.t = "list" ->
         [j |-> "array", elements |-> [i \in 1..Len(v.items) |-> json_dump(v.items[i])]]
    [] v.t = "int" -> [j |-> "number", digits |-> v.n]
    [] v.t = "bool" -> [j |-> "boolean", literal |-> IF v.b THEN "true" ELSE "false"]
    [] OTHER -> [j |-> "string", chars |-> v.s]

RECURSIVE json_load(_)
\* the value json.load builds for a JSON tree
json_load(x) ==
  CASE x.j = "object" ->
         PyDict([i \in 1..Len(x.members) |->
                   Item(x.members[i].name, json_load(x.members[i].value))])
    [] x.j = "array" -> PyList([i \in 1..Len(x.elements) |-> json_load(x.elements[i])])
    [] x.j = "number" -> PyInt(x.digits)
    [] x.j = "boolean" -> PyBool(x.literal = "true")
    [] OTHER -> PyStr(x.chars)

\* state.json as a text: none, a JSON text, or a truncated one
NoText == [kind |-> "missing"]
JsonText(x) == [kind |-> "json", tree |-> x]
TruncatedText == [kind |-> "truncated"]

\* save_state on the text: a value json.dump cannot encode fails after the
\* truncating open, like any other write error
save_text(text, st, outcome) ==
  CASE outcome = "open_failed" -> text
    [] outcome = "ok" /\ Serializable(st) -> JsonText(json_dump(st))
    [] OTHER -> TruncatedText

\* load_state on the text
load_text(text, readable) ==
  IF text.kind = "json" /\ readable THEN json_load(text.tree) ELSE PyDict(<<>>)

\* a main that stores the hot list as the set it is
StateDict_HotSet(st, alerts, hotOrder, tk, t) ==
  SetItem(SetItem(SetItem(SetItem(SetItem(st,
    "alerts_sent", alerts),
    "hot_list", PySet(Range(hotOrder))),
    "tickers", StrList(tk)),
    "tickers_fetched_at", Get(st, "tickers_fetched_at", PyInt(t))),
    "last_run", PyInt(t))

\* lines 303-307: the dict handed to save_state; hotOrder is list(hot_list)
StateDict(st, alerts, hotOrder, tk, t) ==
  SetItem(SetItem(SetItem(SetItem(SetItem(st,
    "alerts_sent", alerts),
    "hot_list", StrList(hotOrder)),
    "tickers", StrList(tk)),
    "tickers_fetched_at", Get(st, "tickers_fetched_at", PyInt(t))),
    "last_run", PyInt(t))

\* what main and get_tickers read from a loaded dict (231, 232, 54, 55), with
\* the defaults of their .get calls: the document of the state file
DocOf(d) ==
  LET a == Get(d, "alerts_sent", PyDict(<<>>))
      h == Get(d, "hot_list", PyList(<<>>))
      tk == Get(d, "tickers", PyList(<<>>))
      rec(r) ==
        [thresholds |->
           LET ths == Get(r, "thresholds", PyList(<<>>))
           IN [i \in 1..Len(ths.items) |-> ths.items[i].n],
         prebreak |-> Get(r, "prebreak", PyBool(FALSE)).b]
  IN [tickers |-> [i \in 1..Len(tk.items) |-> tk.items[i].s],
      tickers_fetched_at |-> Get(d, "tickers_fetched_at", PyInt(0)).n,
      alerts_sent |-> [t \in {a.items[i].k : i \in 1..Len(a.items)} |-> rec(Get(a, t, PyDict(<<>>)))],
      hot_list |-> {h.items[i].s : i \in 1..Len(h.items)},
      last_run |-> Get(d, "last_run", PyInt(0)).n]

\* the inputs: the record dicts main leaves for a ticker ...
RTRecDicts ==
  { PyDict(<<>>),
    PyDict(<<Item("prebreak", PyBool(TRUE))>>),
    PyDict(<<Item("thresholds", IntList(<<5>>))>>),
    PyDict(<<Item("thresholds", IntList(<<5, 10, 20>>)),
             Item("prebreak", PyBool(TRUE))>>),
    PyDict(<<Item("prebreak", PyBool(TRUE)),
             Item("thresholds", IntList(<<10, 20>>))>>) }
\* ... the alerts_sent dicts over two tickers, in both insertion orders ...
RTAlerts ==
  {PyDict(<<>>)}
  \cup {PyDict(<<Item(t, r)>>) : t \in {EvalTicker, OtherTicker}, r \in RTRecDicts}
  \cup UNION {{PyDict(<<Item(t, r), Item(u, q)>>) :
                  u \in {EvalTicker, OtherTicker} \ {t},
                  r \in RTRecDicts, q \in RTRecDicts} :
                t \in {EvalTicker, OtherTicker}}
\* ... the universes ...
RTTickers ==
  {<<>>, <<EvalTicker>>, <<EvalTicker, OtherTicker>>, <<OtherTicker, EvalTicker>>}
\* ... and the dict load_state returned at the start of the run
RTLoaded == {PyDict(<<>>), PyDict(<<Item("tickers_fetched_at", PyInt(T0 - SlotSeconds))>>)}

InitRoundTrip ==
  /\ now = T0
  /\ ticks = 0
  /\ file = NoFile
  /\ pc = "idle"
  /\ runs = 0
  /\ state = EmptyDoc
  /\ alerts_sent = <<>>
  /\ hot_list = {}
  /\ tickers = <<>>
  /\ batch = <<>>
  /\ idx = 0
  /\ total = 0
  /\ scan_set = <<>>
  /\ pos = 1
  /\ refreshed = FALSE
  /\ evaluated = <<>>
  /\ failed = {}
  /\ saves = <<>>
  /\ last = NoEval
  /\ ever = {}
  /\ notified = {}
  /\ undelivered = {}
  /\ loaded = FALSE
  /\ picks = {}
  /\ \E st \in RTLoaded, a \in RTAlerts, hot \in SUBSET {EvalTicker, OtherTicker},
        tk \in RTTickers :
       call = [op |-> "roundtrip", stage |-> "input", st |-> st, alerts |-> a,
               hot |-> hot, tickers |-> tk, saved |-> PyDict(<<>>),
               outcome |-> "none", text |-> NoText, readable |-> FALSE,
               back |-> PyDict(<<>>)]

\* lines 303-308: build the dict and save it
RoundTripSave(hotOrder, outcome) ==
  /\ call.op = "roundtrip" /\ call.stage = "input"
  /\ hotOrder \in Orderings(call.hot)
  /\ LET st == StateDict(call.st, call.alerts, hotOrder, call.tickers, now)
     IN call' = [call EXCEPT !.stage = "saved", !.saved = st, !.outcome = outcome,
                             !.text = save_text(call.text, st, outcome)]
  /\ UNCHANGED mainVars

\* line 230 of the next run
RoundTripLoad(readable) ==
  /\ call.op = "roundtrip" /\ call.stage = "saved"
  /\ call' = [call EXCEPT !.stage = "loaded", !.readable = readable,
                          !.back = load_text(call.text, readable)]
  /\ UNCHANGED mainVars

NextRoundTrip ==
  \/ \E hotOrder \in Orderings({EvalTicker, OtherTicker}) \cup Orderings({EvalTicker})
                     \cup Orderings({OtherTicker}) \cup Orderings({}),
        outcome \in SaveOutcomes : RoundTripSave(hotOrder, outcome)
  \/ \E readable \in BOOLEAN : RoundTripLoad(readable)

SpecRoundTrip == InitRoundTrip /\ [][NextRoundTrip]_vars

\* ------------------------------------------------------------------ claims
NoDup(s) == \A i, j \in 1..Len(s) : i /= j => s[i] /= s[j]
Levels(alerts, t) == Range(RecOf(alerts, t).thresholds)
SaveAts == [i \in 1..Len(saves) |-> saves[i].at]
ThisStepSaved == saves' /= saves /\ saves' /= <<>>
ThisStepSaveOk == ThisStepSaved /\ saves'[Len(saves')].outcome = "ok"

\* C1 as stated: once a level L is in a ticker's recorded thresholds, no later
\* evaluation, in the same or any later run, sends a threshold notification
\* for (ticker, L) again.
C1_RecordedLevelNeverSentAgain ==
  [][\A k \in ever : k.type = "threshold" => k \notin Range(last'.sent)]_vars

\* C1 amended: while a level L is in alerts_sent[ticker].thresholds of a running
\* scan (loaded at run start or recorded earlier in the run), it stays recorded
\* until the run ends and is in the state the run hands to save_state (and in
\* the file when that save succeeds); no evaluation made meanwhile lists L in
\* new_thresholds and no threshold notification for (ticker, L) is sent.
C1_LevelHeldIsNotRefired ==
  [][pc = "scan" =>
       \A t \in DOMAIN alerts_sent : \A L \in Levels(alerts_sent, t) :
          /\ Threshold(t, L) \notin Range(last'.sent)
          /\ (last'.ticker = t => L \notin Range(last'.new_thresholds))
          /\ L \in Levels(alerts_sent', t)
          /\ (pc' = "done" => L \in Levels(state'.alerts_sent, t))
          /\ (ThisStepSaveOk => file'.kind = "doc" /\ L \in Levels(file'.doc.alerts_sent, t))
    ]_vars

\* C1 witness: a second run evaluates a ticker whose change is above 10% while
\* level 5 is already recorded: level 10 is sent, level 5 is not.
C1_Witness ==
  /\ runs = 2 /\ last.evaluated
  /\ 5 \in Range(last.prev.thresholds) /\ 10 \notin Range(last.prev.thresholds)
  /\ {5, 10} \subseteq last.crossed
  /\ last.sent = <<Threshold(last.ticker, 10)>>

\* C2 as stated: once a ticker's pre-breakout latch is set and its notification
\* sent, no later evaluation in any run sends a second pre-breakout
\* notification for that ticker.
C2_LatchedNeverSentAgain ==
  [][\A k \in ever \cap notified : k.type = "prebreak" => k \notin Range(last'.sent)]_vars

\* C2 amended: while the latch of a ticker is set in alerts_sent of a running
\* scan, it stays set until the run ends and is in the state the run hands to
\* save_state (and in the file when that save succeeds); no evaluation made
\* meanwhile reports prebreak_hit or sends a pre-breakout notification,
\* however many triggers it sees.
C2_LatchHeldIsNotRefired ==
  [][pc = "scan" =>
       \A t \in DOMAIN alerts_sent : alerts_sent[t].prebreak =>
          /\ Prebreak(t) \notin Range(last'.sent)
          /\ (last'.ticker = t => ~last'.prebreak_hit)
          /\ RecOf(alerts_sent', t).prebreak
          /\ (pc' = "done" => RecOf(state'.alerts_sent, t).prebreak)
          /\ (ThisStepSaveOk => file'.kind = "doc" /\ RecOf(file'.doc.alerts_sent, t).prebreak)
    ]_vars

\* C2 witness: a second run sees two or more triggers (and a newly crossed
\* level) for a ticker whose latch is set; the level is sent, and no
\* pre-breakout notification.
C2_Witness ==
  /\ runs = 2 /\ last.evaluated
  /\ last.prev.prebreak /\ last.ntriggers >= 2
  /\ last.new_thresholds /= <<>>
  /\ Prebreak(last.ticker) \notin Range(last.sent)
  /\ RecOf(alerts_sent, last.ticker).prebreak

\* the batch index of one call, by window: a cycle of c consecutive windows
\* starting at the window of p
WindowOf(p) == p.at \div 300
RECURSIVE ConcatTo(_, _)
ConcatTo(f, n) == IF n = 0 THEN <<>> ELSE ConcatTo(f, n - 1) \o f[n]

C4_SameWindowSameBatch ==
  \A p, q \in picks :
    WindowOf(p) = WindowOf(q) => p.batch = q.batch /\ p.idx = q.idx /\ p.total = q.total

\* C4 witness: two calls at different clock values of one window, on a
\* universe of several chunks, and a call in another window that differs.
C4_Witness ==
  \E p, q, r \in picks :
    /\ p.at /= q.at /\ WindowOf(p) = WindowOf(q) /\ p.total >= 2
    /\ WindowOf(r) /= WindowOf(p) /\ r.batch /= p.batch

\* the hot list a run would load from the state file
PersistedHot(f) == load_state(f, TRUE).hot_list

\* C5: every ticker in the persisted hot list stays in it, whatever a run does.
C5_HotListNeverShrinks ==
  [][PersistedHot(file) \subseteq PersistedHot(file')]_vars

\* C6: the scan set is the batch in batch order followed by the hot-list
\* tickers not in the batch, without duplicates; so every hot-list ticker is
\* evaluated in the run, and every ticker at most once.
C6_ScanSetIsBatchThenHotList ==
  /\ pc = "scan" =>
       /\ \E rest \in Orderings(state.hot_list \ Range(batch)) :
            scan_set = Dedup(batch) \o rest
       /\ NoDup(scan_set)
       /\ state.hot_list \subseteq Range(scan_set)
       /\ Range(batch) \subseteq Range(scan_set)
       /\ evaluated = SubSeq(scan_set, 1, pos - 1)
  /\ (pc = "done" /\ batch /= <<>>) => (evaluated = scan_set /\ NoDup(evaluated))

\* C6 witness: a finished run that evaluated its batch and then a hot-list
\* ticker from another batch.
C6_Witness ==
  /\ pc = "done" /\ Len(evaluated) = 2 /\ batch /= <<>>
  /\ evaluated[1] \in Range(batch) /\ evaluated[2] \notin Range(batch)

\* C7: an exception in the iteration of one ticker never aborts the run: the
\* loop goes on, every ticker of the scan set is evaluated and save_state is
\* called at the end.
C7_TickerFailureNeverAbortsRun ==
  /\ failed /= {} => pc \in {"scan", "done"}
  /\ pc = "scan" => evaluated = SubSeq(scan_set, 1, pos - 1)
  /\ (pc = "done" /\ batch /= <<>>) =>
       /\ evaluated = scan_set
       /\ saves /= <<>> /\ saves[Len(saves)].at = "main"

\* C7 witness: a finished run of two tickers in which both iterations raised.
C7_Witness ==
  /\ pc = "done" /\ Len(scan_set) = 2 /\ failed = Range(scan_set)
  /\ evaluated = scan_set /\ saves[Len(saves)].at = "main"

\* C8: a save_state that fails leaves the persisted state as it was, so the
\* next load_state returns what the last successful save wrote.
C8_FailedSaveKeepsPersistedState ==
  [][(ThisStepSaved /\ ~ThisStepSaveOk) =>
       load_state(file', TRUE) = load_state(file, TRUE)]_vars

\* C9 as stated: a run that reaches its end has written the state exactly once.
C9_ExactlyOneWrite ==
  pc = "done" => Len(saves) = 1

\* C9 amended: a run that reaches its end calls save_state at run end, after
\* all in-memory mutations (the written state holds the run's alerts_sent,
\* hot list and tickers); it is the run's only write when the universe was
\* fresh, and the second when the universe was refreshed: get_tickers writes
\* the state once, before any ticker is evaluated.
C9_WriteAtEndAndAtRefresh ==
  /\ pc = "scan" => SaveAts = (IF refreshed THEN <<"get_tickers">> ELSE <<>>)
  /\ pc = "done" =>
       /\ SaveAts = (IF refreshed THEN <<"get_tickers", "main">> ELSE <<"main">>)
       /\ state.alerts_sent = alerts_sent
       /\ state.hot_list = hot_list
       /\ state.tickers = tickers
       /\ (saves[Len(saves)].outcome = "ok" => file = DocFile(state))

\* C9 witness: a finished run that refreshed the universe, sent a
\* notification and wrote twice.
C9_Witness ==
  /\ pc = "done" /\ refreshed /\ Len(saves) = 2 /\ hot_list /= {}

\* C10: a run is aborted by the universe fetch only when the loaded state
\* holds no ticker list.
C10_StaleUniverseIsKept ==
  pc = "aborted" => state.tickers = <<>>

\* the alert records a run would load from the state file
PersistedAlerts(f) == load_state(f, TRUE).alerts_sent
\* the step is an iteration of the for loop
IsScanStep == pc = "scan" /\ pos' = pos + 1
\* the step is the end of a run that scanned
IsFinishStep == pc = "scan" /\ pc' = "done"
\* the step is the start of a run
IsStartStep == runs' = runs + 1

\* C11 as stated: when send_discord returns False for a threshold or
\* pre-breakout notification, the level is recorded (the latch set) and the
\* ticker is in the hot list, both are in the state file at run end, and no
\* later evaluation in any run sends that notification again.
C11_UndeliveredIsPersistedAndNeverRetried ==
  [][/\ (IsScanStep /\ ~last'.delivered) =>
         \A k \in Range(last'.sent) :
            k \in Held(alerts_sent') /\ k.ticker \in hot_list'
     /\ IsFinishStep =>
         \A k \in undelivered :
            k \in Held(PersistedAlerts(file')) /\ k.ticker \in PersistedHot(file')
     /\ \A k \in undelivered : k \notin Range(last'.sent)
    ]_vars

\* C11 amended: when send_discord returns False and the handling of the
\* ticker completes without an exception, nothing is rolled back: the level
\* is recorded (the latch set) and the ticker is in the hot list. Such a
\* record stays until the run ends, is in the state handed to save_state at
\* run end and in state.json when that write succeeds; a run whose load_state
\* returns the record holds it from the start, and no run that holds it sends
\* the notification again.
C11_FailedDeliveryIsNotRolledBack ==
  [][/\ (IsScanStep /\ ~last'.delivered /\ ~last'.raised) =>
         \A k \in Range(last'.sent) :
            k \in Held(alerts_sent') /\ k.ticker \in hot_list'
     /\ pc = "scan" =>
         \A k \in undelivered \cap Held(alerts_sent) :
            /\ k \in Held(alerts_sent')
            /\ k \notin Range(last'.sent)
            /\ (k.ticker \in hot_list => k.ticker \in hot_list')
            /\ IsFinishStep =>
                 /\ k \in Held(state'.alerts_sent)
                 /\ (k.ticker \in hot_list => k.ticker \in state'.hot_list)
                 /\ ThisStepSaveOk =>
                      /\ k \in Held(PersistedAlerts(file'))
                      /\ (k.ticker \in hot_list => k.ticker \in PersistedHot(file'))
     /\ (IsStartStep /\ loaded') =>
         \A k \in undelivered \cap Held(file.doc.alerts_sent) :
            /\ k \in Held(alerts_sent')
            /\ (k.ticker \in file.doc.hot_list => k.ticker \in hot_list')
    ]_vars

\* C11 witness: the delivery of a threshold notification failed in the first
\* run; the second run loads the record, evaluates the ticker in the hot list
\* with the level still crossed, and does not send it.
C11_Witness ==
  \E k \in undelivered :
    /\ k.type = "threshold" /\ runs = 2 /\ loaded /\ last.evaluated
    /\ last.ticker = k.ticker /\ k.level \in last.crossed
    /\ k.level \in Range(last.prev.thresholds)
    /\ k \notin Range(last.sent)
    /\ k \in Held(alerts_sent) /\ k.ticker \in state.hot_list

\* the history of the evaluation under study, and the call once analysed
EvalHistOf == EvalHist(call.n, call.shape, call.today)
EvalComputed ==
  call.op = "eval" /\ call.stage /= "input" /\ call.an.usable /\ ~call.raises
\* the levels at or below the percent change of the day, not yet recorded
ExpectedNew(hist, rec) ==
  {L \in {5, 10, 20} :
     /\ (hist[Len(hist)].Close - hist[Len(hist) - 1].Close) * 100
          >= L * hist[Len(hist) - 1].Close
     /\ L \notin Range(rec.thresholds)}
ThresholdsSent(sent) == SelectSeq(sent, LAMBDA k : k.type = "threshold")

TrueTriggers ==
  Cardinality({n \in {"Gap", "UnusualVol", "Breakout", "PositiveSentiment"} :
     \/ n = "Gap" /\ gap(EvalHistOf)
     \/ n = "UnusualVol" /\ unusual_vol(EvalHistOf)
     \/ n = "Breakout" /\ breakout(EvalHistOf)
     \/ n = "PositiveSentiment" /\ pos_news(call.sentiment)})

\* C13: on every evaluation, prebreak_hit is true iff at least 2 of the four
\* triggers are true and the latch of the ticker is not set; analyze_ticker
\* returns a result iff new_thresholds is non-empty or prebreak_hit is true,
\* and no signal otherwise (so too for an unusable snapshot and when the
\* computation raises).
C13_PrebreakIffTwoTriggersUnlatched ==
  (call.op = "eval" /\ call.stage /= "input") =>
    IF call.an.usable /\ ~call.raises
    THEN LET hit == TrueTriggers >= 2 /\ ~call.r.rec.prebreak
             new == ExpectedNew(EvalHistOf, call.r.rec)
         IN /\ call.res.prebreak_hit = hit
            /\ call.res.some = (new /= {} \/ hit)
            /\ Range(call.res.new_thresholds) = new
            /\ call.res.some => Len(call.res.triggers) = TrueTriggers
    ELSE call.res = NoResult

\* C13 witness: exactly two triggers are true, the latch is not set and no
\* level is newly crossed: a result is returned, for the pre-breakout alone.
C13_Witness ==
  /\ call.op = "eval" /\ call.stage = "analyzed" /\ ~call.raises
  /\ TrueTriggers = 2 /\ call.r.has /\ ~call.r.rec.prebreak
  /\ call.res.some /\ call.res.prebreak_hit /\ call.res.new_thresholds = <<>>

\* the highs of the 20 bars before today
PriorHighs(hist) == {hist[j].High : j \in (Len(hist) - 20)..(Len(hist) - 1)}

\* C14: on a usable snapshot the breakout trigger fires exactly when there are
\* at least 21 bars and today's close is strictly above the highest high of
\* the 20 bars before today, today left out; a close equal to that maximum
\* does not fire it, and 20 bars or fewer never fire it.
C14_BreakoutAboveTwentyPriorHighs ==
  (call.op = "eval" /\ call.stage /= "input" /\ call.an.usable) =>
    LET hist == EvalHistOf
        close == hist[Len(hist)].Close
        fires == \E i \in 1..Len(call.an.triggers) : call.an.triggers[i] = "Breakout"
    IN /\ fires = (Len(hist) >= 21 /\ \A h \in PriorHighs(hist) : close > h)
       /\ Len(hist) <= 20 => ~fires
       /\ (Len(hist) >= 21 /\ \E h \in PriorHighs(hist) : close = h
             /\ \A g \in PriorHighs(hist) : g <= h) => ~fires

\* C14 witness: 22 bars, the oldest with a high of 130, outside the 20 bars
\* before today; today's close of 106 is above the 105 of those 20 bars and
\* below today's own high: the trigger fires.
C14_Witness ==
  /\ call.op = "eval" /\ call.stage = "analyzed" /\ call.an.usable
  /\ call.n = 21 /\ call.shape = "old_high" /\ call.today.Close = 106
  /\ call.today.High > call.today.Close
  /\ \E i \in 1..Len(call.an.triggers) : call.an.triggers[i] = "Breakout"

\* C15: after a successful universe load the universe is non-empty, holds no
\* symbol twice, and every symbol is uppercase and free of space, slash and
\* dot, whatever list the provider returned.
C15_UniverseCleanAndUnique ==
  pc \in {"scan", "done"} =>
    /\ tickers /= <<>>
    /\ NoDup(tickers)
    /\ \A i \in 1..Len(tickers) :
         tickers[i] = Upper(tickers[i]) /\ ~HasSeparator(tickers[i])

\* C16: the provider is called only when the universe the run loaded is empty
\* or was fetched 24 hours ago or more: a run that loads a non-empty universe
\* fetched less than 24 hours ago makes no provider call, writes nothing in
\* get_tickers, scans that universe, and its run-end write leaves tickers and
\* tickers_fetched_at as they were.
C16_FreshUniverseIsNotRefetched ==
  [][/\ IsStartStep =>
         LET st == IF loaded' THEN file.doc ELSE EmptyDoc
             fresh == st.tickers /= <<>> /\ now - st.tickers_fetched_at < 24 * 3600
         IN /\ refreshed' = ~fresh
            /\ fresh =>
                 /\ tickers' = st.tickers
                 /\ state' = st
                 /\ saves' = <<>> /\ file' = file
                 /\ pc' = "scan"
     /\ IsScanStep => (refreshed' = refreshed /\ tickers' = tickers /\ state' = state)
     /\ (IsFinishStep /\ ~refreshed) =>
         /\ state'.tickers = state.tickers
         /\ state'.tickers_fetched_at = state.tickers_fetched_at
         /\ ThisStepSaveOk =>
              /\ file'.doc.tickers = file.doc.tickers
              /\ file'.doc.tickers_fetched_at = file.doc.tickers_fetched_at
    ]_vars

\* C16 witness: the second run starts 300 seconds after the first one fetched
\* the universe, loads it, does not refresh, and writes it back unchanged.
C16_Witness ==
  /\ runs = 2 /\ loaded /\ ~refreshed /\ pc = "done"
  /\ tickers /= <<>>
  /\ now = state.tickers_fetched_at + 300
  /\ file = DocFile(state) /\ file.doc.last_run = now
  /\ file.doc.tickers = tickers

\* C17: a state saved by save_state and then loaded by load_state is
\* equivalent to the one saved: the same alerts_sent mapping (levels and latch
\* of every ticker), the same members of the hot list, the same tickers in
\* the same order; the document the run model keeps for the file is the one
\* read back from the JSON text.
C17_SaveThenLoadIsEquivalent ==
  (call.op = "roundtrip" /\ call.stage = "loaded"
     /\ call.outcome = "ok" /\ call.readable) =>
    /\ call.text.kind = "json"
    /\ DocOf(call.back).alerts_sent = DocOf(call.saved).alerts_sent
    /\ DocOf(call.back).hot_list = call.hot
    /\ DocOf(call.back).tickers = call.tickers
    /\ DocOf(call.back) = DocOf(call.saved)
    /\ DocOf(call.back) = load_state(save_state(NoFile, DocOf(call.saved), "ok"), TRUE)
    /\ call.back = call.saved

\* C17 witness: two tickers with records (one with the latch alone), both in
\* the hot list, a universe of two, saved and read back.
C17_Witness ==
  /\ call.op = "roundtrip" /\ call.stage = "loaded"
  /\ call.outcome = "ok" /\ call.readable
  /\ Len(call.alerts.items) = 2 /\ Cardinality(call.hot) = 2
  /\ call.tickers = <<OtherTicker, EvalTicker>>
  /\ DocOf(call.back).alerts_sent[EvalTicker] = [thresholds |-> <<>>, prebreak |-> TRUE]
  /\ DocOf(call.back).alerts_sent[OtherTicker].thresholds = <<5, 10, 20>>
  /\ DocOf(call.back).hot_list = {EvalTicker, OtherTicker}

\* C18: over runs that each complete and persist successfully, send_discord
\* is called at most once per (ticker, level) and at most once per ticker for
\* the pre-breakout, also when an iteration raised after a notification was
\* sent and before the record was updated.
C18_AtMostOncePerNotification ==
  [][\A k \in notified : k \notin Range(last'.sent)]_vars

\* C19: at the end of every run, every ticker whose record holds a level or
\* a set latch is in the hot list the run persists, also when an exception
\* interrupted the handling of the ticker.
C19_AlertedTickerIsInHotList ==
  pc = "done" =>
    \A t \in DOMAIN alerts_sent :
      (alerts_sent[t].thresholds /= <<>> \/ alerts_sent[t].prebreak) =>
        t \in hot_list /\ t \in PersistedHot(file)

\* C20: within a run every ticker's record only grows. No step of a run
\* removes a record, drops a recorded level or clears a latch, and the
\* handling of one ticker leaves the records of all other tickers as they were.
C20_RecordsOnlyGrowWithinARun ==
  [][~IsStartStep =>
       /\ \A t \in DOMAIN alerts_sent :
            /\ t \in DOMAIN alerts_sent'
            /\ Levels(alerts_sent, t) \subseteq Levels(alerts_sent', t)
            /\ alerts_sent[t].prebreak => alerts_sent'[t].prebreak
       /\ IsScanStep =>
            /\ DOMAIN alerts_sent' \subseteq DOMAIN alerts_sent \cup {scan_set[pos]}
            /\ \A t \in DOMAIN alerts_sent \ {scan_set[pos]} :
                 alerts_sent'[t] = alerts_sent[t]
       /\ ~IsScanStep => alerts_sent' = alerts_sent]_vars

\* a ticker whose record already held level 5 has just had its latch set
\* in the same record, while another ticker has a record of its own
C20_Witness ==
  /\ pc = "scan"
  /\ last.evaluated
  /\ last.prev.thresholds = <<5>>
  /\ ~last.prev.prebreak
  /\ last.prebreak_hit
  /\ ~last.raised
  /\ alerts_sent[last.ticker].thresholds /= <<>>
  /\ alerts_sent[last.ticker].prebreak
  /\ \E u \in DOMAIN alerts_sent : u /= last.ticker

====
